---- MODULE Spec2Model ----
(***************************************************************************)
(* Model of script/ExtractReviews.py: the batch that harvests app-store    *)
(* metadata and synchronises one review archive per app.                   *)
(*                                                                         *)
(* Python values are encoded as follows.  A str is a TLA+ string; Chars    *)
(* gives its characters where the code looks inside it (strptime, string   *)
(* comparison).  A dict is the sequence of its <<key, value>> items in     *)
(* insertion order, which is what tuple(d.items()) yields.  An optional    *)
(* value is a sequence of length 0 (None) or 1.                            *)
(***************************************************************************)
EXTENDS Integers, Sequences, FiniteSets, TLC

\* ------------------------------------------------------------------ bounds
MaxPages == 2
MaxRemoteReviews == 2
MaxRuns == 2
MaxDedupLen == 3
MaxArchiveLen == 3
MaxFilterLen == 3
MaxCriterias == 3

\* ------------------------------------------------------------ Python values
None == <<>>
Some(v) == <<v>>

Range(s) == {s[i] : i \in DOMAIN s}

\* The characters of the string literals that occur in the model.
Chars(s) ==
  CASE s = "9" -> <<"9">>
    [] s = "10" -> <<"1", "0">>
    [] s = "11" -> <<"1", "1">>
    [] s = "2024-03-01" -> <<"2", "0", "2", "4", "-", "0", "3", "-", "0", "1">>
    [] s = "2024-3-1" -> <<"2", "0", "2", "4", "-", "3", "-", "1">>
    [] s = "2024-02-29" -> <<"2", "0", "2", "4", "-", "0", "2", "-", "2", "9">>
    [] s = "2024-02-28" -> <<"2", "0", "2", "4", "-", "0", "2", "-", "2", "8">>
    [] s = "2024-02-30" -> <<"2", "0", "2", "4", "-", "0", "2", "-", "3", "0">>
    [] s = "id" -> <<"i", "d">>
    [] s = "date" -> <<"d", "a", "t", "e">>
    [] s = "score" -> <<"s", "c", "o", "r", "e">>
    [] s = "scoreText" -> <<"s", "c", "o", "r", "e", "T", "e", "x", "t">>
    [] s = "title" -> <<"t", "i", "t", "l", "e">>
    [] s = "text" -> <<"t", "e", "x", "t">>
    [] s = "vaf" -> <<"v", "a", "f">>
    [] s = "vaf_a" -> <<"v", "a", "f", "_", "a">>
    [] s = "vaf_b" -> <<"v", "a", "f", "_", "b">>
    [] s = "va" -> <<"v", "a">>
    [] s = "speed" -> <<"s", "p", "e", "e", "d">>
    [] OTHER -> <<>>

Digits == {"0", "1", "2", "3", "4", "5", "6", "7", "8", "9"}

\* Code point of a character (only the characters of Chars are needed).
Ord(c) ==
  CASE c = "-" -> 45
    [] c = "0" -> 48 [] c = "1" -> 49 [] c = "2" -> 50 [] c = "3" -> 51
    [] c = "4" -> 52 [] c = "5" -> 53 [] c = "6" -> 54 [] c = "7" -> 55
    [] c = "8" -> 56 [] c = "9" -> 57
    [] OTHER -> 0

DigitVal(c) == Ord(c) - 48

\* int() of a run of decimal digits.
RECURSIVE NumVal(_)
NumVal(cs) ==
  IF cs = <<>> THEN 0
  ELSE 10 * NumVal(SubSeq(cs, 1, Len(cs) - 1)) + DigitVal(cs[Len(cs)])

\* Python's str comparison: lexicographic by code point.
RECURSIVE SeqLess(_, _)
SeqLess(a, b) ==
  IF b = <<>> THEN FALSE
  ELSE IF a = <<>> THEN TRUE
  ELSE IF Ord(Head(a)) # Ord(Head(b)) THEN Ord(Head(a)) < Ord(Head(b))
  ELSE SeqLess(Tail(a), Tail(b))

StrLess(a, b) == SeqLess(Chars(a), Chars(b))

\* --------------------------------------------------------------- calendar
IsLeap(y) == (y % 4 = 0 /\ y % 100 # 0) \/ y % 400 = 0

DaysInMonth(y, m) ==
  IF m = 2 THEN (IF IsLeap(y) THEN 29 ELSE 28)
  ELSE IF m \in {4, 6, 9, 11} THEN 30 ELSE 31

RECURSIVE DaysBeforeMonth(_, _)
DaysBeforeMonth(y, m) ==
  IF m = 1 THEN 0 ELSE DaysBeforeMonth(y, m - 1) + DaysInMonth(y, m - 1)

\* date.toordinal(): days since 0001-01-01, that day being 1.
DateOrdinal(y, m, d) ==
  365 * (y - 1) + ((y - 1) \div 4) - ((y - 1) \div 100) + ((y - 1) \div 400)
    + DaysBeforeMonth(y, m) + d

\* datetime.strptime(s, "%Y-%m-%d"): four digits, one or two digits, one or
\* two digits, separated by "-"; the day must exist in the month.  The result
\* is None when strptime raises ValueError, else the date's ordinal.
strptime(s) ==
  LET cs == Chars(s)
      dashes == {i \in 1..Len(cs) : cs[i] = "-"}
  IN IF Cardinality(dashes) # 2 THEN None
     ELSE
       LET p1 == CHOOSE i \in dashes : \A j \in dashes : i <= j
           p2 == CHOOSE i \in dashes : \A j \in dashes : j <= i
           Y == SubSeq(cs, 1, p1 - 1)
           M == SubSeq(cs, p1 + 1, p2 - 1)
           D == SubSeq(cs, p2 + 1, Len(cs))
       IN IF \/ Len(Y) # 4 \/ Len(M) \notin {1, 2} \/ Len(D) \notin {1, 2}
             \/ \E c \in Range(Y) \cup Range(M) \cup Range(D) : c \notin Digits
          THEN None
          ELSE IF \/ NumVal(M) \notin 1..12
                  \/ NumVal(D) \notin 1..DaysInMonth(NumVal(Y), NumVal(M))
          THEN None
          ELSE Some(DateOrdinal(NumVal(Y), NumVal(M), NumVal(D)))

\* timedelta(days=2)
CutoffDays == 2

\* (datetime.today() - timedelta(days=2)).date()
upto_date_of(todayOrd) == todayOrd - CutoffDays

\* ------------------------------------------------------------------- dicts
DictKeys(d) == {d[i][1] : i \in DOMAIN d}

DictGet(d, k) == d[CHOOSE i \in DOMAIN d : d[i][1] = k][2]

\* d[k] = v: an existing key keeps its position, a new key goes last.
DictSet(d, k, v) ==
  IF k \in DictKeys(d)
  THEN [i \in DOMAIN d |-> IF d[i][1] = k THEN <<k, v>> ELSE d[i]]
  ELSE Append(d, <<k, v>>)

\* {**d, **e}
RECURSIVE DictUpdate(_, _)
DictUpdate(d, e) ==
  IF e = <<>> THEN d
  ELSE DictUpdate(DictSet(d, Head(e)[1], Head(e)[2]), Tail(e))

\* Python's == on dicts: the same keys with the same values, in any order.
DictEq(d, e) == Range(d) = Range(e)

\* ---------------------------------------------------------------- flatten
\* criteria.get("rating", 0): an absent rating defaulted.
RatingOrZero(criteria) ==
  IF "rating" \in DOMAIN criteria THEN Some(criteria.rating) ELSE Some(0)

\* criteria.get("rating")
RatingOf(criteria) ==
  IF "rating" \in DOMAIN criteria THEN Some(criteria.rating) ELSE None

\* review.get("criterias", [])
CriteriasOf(review) ==
  IF "criterias" \in DOMAIN review THEN review.criterias ELSE <<>>

RECURSIVE FlattenLoop(_, _)
FlattenLoop(flattened_criterias, criterias) ==
  IF criterias = <<>> THEN flattened_criterias
  ELSE FlattenLoop(DictSet(flattened_criterias, Head(criterias).criteria,
                           RatingOf(Head(criterias))),
                   Tail(criterias))

flatten_criterias(review) == FlattenLoop(<<>>, CriteriasOf(review))

\* The dict display of lines 62-70.
FlattenReview(review) ==
  DictUpdate(<< <<"id", review.id>>, <<"date", review.date>>,
                <<"score", review.score>>, <<"scoreText", review.scoreText>>,
                <<"title", review.title>>, <<"text", review.text>> >>,
             flatten_criterias(review))

FlattenAll(all_reviews) ==
  [i \in DOMAIN all_reviews |-> FlattenReview(all_reviews[i])]

\* ------------------------------------------------------------------ dedup
\* Every list that enumerates the set S once: the orders in which iterating
\* a Python set may yield its elements.
Orderings(S) ==
  {s \in [1..Cardinality(S) -> S] : \A x \in S : \E i \in DOMAIN s : s[i] = x}

\* {tuple(d.items()) for d in reviews}: a dict enters the set as the tuple of
\* its items in insertion order.
ItemTuples(reviews) == {reviews[i] : i \in DOMAIN reviews}

\* The lists remove_duplicates may return: [dict(t) for t in {...}].
remove_duplicates(reviews) == Orderings(ItemTuples(reviews))

\* ------------------------------------------------------------------- sort
\* The sort key of line 98, (strptime(x["date"]), x["id"]), compared as Python
\* compares tuples: dates first, then the ids as strings.
KeyLess(a, b) ==
  LET da == strptime(DictGet(a, "date"))[1]
      db == strptime(DictGet(b, "date"))[1]
  IN \/ da < db
     \/ da = db /\ StrLess(DictGet(a, "id"), DictGet(b, "id"))

\* sorted(..., reverse=True) is stable: x goes after every element whose key
\* is not less than its own.
InsertDesc(sorted, x) ==
  LET p == Cardinality({i \in DOMAIN sorted : ~KeyLess(sorted[i], x)})
  IN SubSeq(sorted, 1, p) \o <<x>> \o SubSeq(sorted, p + 1, Len(sorted))

RECURSIVE SortDescLoop(_, _)
SortDescLoop(sorted, rest) ==
  IF rest = <<>> THEN sorted
  ELSE SortDescLoop(InsertDesc(sorted, Head(rest)), Tail(rest))

\* Line 98.  None when a date of the list does not parse (ValueError).
SortReviews(all_reviews) ==
  IF \E i \in DOMAIN all_reviews : strptime(DictGet(all_reviews[i], "date")) = None
  THEN None
  ELSE Some(SortDescLoop(<<>>, all_reviews))

\* 'Count of all reviews ' + len(reviews), line 96: str.__add__ accepts a str
\* operand only, and len() is an int.
TypeOfLen == "int"

StrAdd(rightType) == IF rightType = "str" THEN "ok" ELSE "TypeError"

LogCountMessage == StrAdd(TypeOfLen)

\* ------------------------------------------------------------------- HTTP
\* A response of requests.get: error is a transport failure, on which
\* requests.get raises; otherwise status_code and the JSON body.
HttpOk(body) == [error |-> FALSE, status_code |-> 200, json |-> body]
HttpFail == [error |-> FALSE, status_code |-> 500, json |-> None]
NetworkError == [error |-> TRUE, status_code |-> 0, json |-> None]

Return(v) == [raised |-> "none", value |-> v]
Raise(e) == [raised |-> e, value |-> None]

get_reviews(response) ==
  IF response.error THEN Raise("ConnectionError")
  ELSE Return(IF response.status_code = 200 THEN response.json ELSE None)

get_appinfo(response) ==
  IF response.error THEN Raise("ConnectionError")
  ELSE Return(IF response.status_code = 200 THEN response.json ELSE None)

get_permissions(response) ==
  IF response.error THEN Raise("ConnectionError")
  ELSE Return(IF response.status_code = 200 THEN response.json ELSE None)

get_datasafety(response) ==
  IF response.error THEN Raise("ConnectionError")
  ELSE Return(IF response.status_code = 200 THEN response.json ELSE None)

\* ------------------------------------------------------------ the service
\* Raw reviews the remote service may hold; RawBadDate is dated 30 February.
RawNew ==
  [id |-> "9", date |-> "2024-03-01", score |-> 5, scoreText |-> "5",
   title |-> "t", text |-> "good",
   criterias |-> << [criteria |-> "vaf_a", rating |-> 1],
                    [criteria |-> "vaf_b"] >>]

RawOld ==
  [id |-> "10", date |-> "2024-02-29", score |-> 1, scoreText |-> "1",
   title |-> "t", text |-> "bad"]

RawBadDate == [RawOld EXCEPT !.id = "11", !.date = "2024-02-30"]

RawReviews == {RawNew, RawOld, RawBadDate}

SeqsUpTo(S, n) == UNION {[1..k -> S] : k \in 0..n}

RECURSIVE TotalLen(_)
TotalLen(chain) ==
  IF chain = <<>> THEN 0 ELSE Len(Head(chain)) + TotalLen(Tail(chain))

\* A page is a list of raw reviews; a chain is the list of the pages of one
\* app, each page but the last carrying the token of the next one.  The
\* service holds at most MaxRemoteReviews reviews of an app, on at most
\* MaxPages pages.
Pages == SeqsUpTo(RawReviews, MaxRemoteReviews)
Chains ==
  {chain \in SeqsUpTo(Pages, MaxPages) \ {<<>>} :
     TotalLen(chain) <= MaxRemoteReviews}

EmptyDict == [k \in {} |-> k]

\* The token of a page is its index in the chain; no token asks for page 1.
PageIndex(token) == IF token = None THEN 1 ELSE token[1]

PageBody(chain, k) ==
  [results |-> [data |-> chain[k],
                nextPaginationToken |->
                  IF k < Len(chain) THEN Some(k + 1) ELSE None]]

ReviewOutcomes == {"ok", "empty", "http_error", "network_error"}
DumpOutcomes == {"ok", "http_error", "network_error"}

\* GET /api/apps/{id}/reviews?num=100[&nextPaginationToken=T]
ServiceReviews(chain, token, outcome) ==
  CASE outcome = "ok" -> HttpOk(Some(PageBody(chain, PageIndex(token))))
    [] outcome = "empty" -> HttpOk(Some(EmptyDict))
    [] outcome = "http_error" -> HttpFail
    [] OTHER -> NetworkError

\* The opaque document of the three other endpoints.
Payload == "payload"

ServiceDump(outcome) ==
  CASE outcome = "ok" -> HttpOk(Some(Payload))
    [] outcome = "http_error" -> HttpFail
    [] OTHER -> NetworkError

\* ------------------------------------------------------------------ state
\* applist.json
app_ids == <<"app1", "app2">>
Apps == Range(app_ids)

\* datetime.today() of the runs
Todays == {DateOrdinal(2024, 3, 2), DateOrdinal(2024, 3, 3)}

\* RawNew as the service held it before its author edited the text.
RawNewBeforeEdit == [RawNew EXCEPT !.text = "fine"]

\* Reviews_{id}.json before the first run: absent, or a list; the last one
\* was written when the review with id "9" still had its earlier text.
InitArchives ==
  {None, Some(<<>>), Some(<<FlattenReview(RawNew), FlattenReview(RawOld)>>),
   Some(<<FlattenReview(RawNewBeforeEdit)>>)}

DumpKinds == {"AppInfo", "Permissions", "DataSafety"}

VARIABLES
  today,                 \* the clock's date, as an ordinal
  reviewsFile,           \* app -> Reviews_{app}.json: None when absent
  dumpFiles,             \* kind -> app -> the dumped document, None when absent
  remote,                \* app -> the chain the service holds, <<>> until asked
  runNo,                 \* the number of the process run
  appIdx,                \* position of the loop of lines 201-206 in app_ids
  pc,                    \* the statement about to run
  fault,                 \* the exception that ended the process, or "none"
  existing_reviews,      \* locals of save_app_reviews and extract_all_reviews
  upto_date,
  next_pagination_token,
  all_reviews,
  reviews,
  stages,                \* the stages the current sync has entered, in order
  requests,              \* the page requests of the current sync: <<token, outcome>>
  log,                   \* what the current process run did: <<run, app, operation, event>>
  persisted,             \* <<run, app, archive>> of every write of line 100
  lastCall,              \* the last call of a get_ function: <<name, response, result>>
  allServed,             \* every page request so far was answered with its page
  rd_pc,                 \* a call of remove_duplicates on its own: position,
  rd_input,              \* argument
  rd_output,             \* and returned list
  criteriasFile,         \* app -> Criterias_{app}.json: None when absent
  fn_pc,                 \* a call of one other function on its own: position,
  fn_args,               \* arguments
  fn_result              \* and returned value

vars ==
  <<today, reviewsFile, dumpFiles, remote, runNo, appIdx, pc, fault,
    existing_reviews, upto_date, next_pagination_token, all_reviews, reviews,
    stages, requests, log, persisted, lastCall, allServed,
    rd_pc, rd_input, rd_output, criteriasFile, fn_pc, fn_args, fn_result>>

rd_vars == <<rd_pc, rd_input, rd_output>>

fn_vars == <<criteriasFile, fn_pc, fn_args, fn_result>>

\* No function is being called on its own.
FnIdle ==
  /\ criteriasFile = [a \in Apps |-> None]
  /\ fn_pc = "idle"
  /\ fn_args = <<>>
  /\ fn_result = <<>>

locals ==
  <<existing_reviews, upto_date, next_pagination_token, all_reviews, reviews,
    stages, requests>>

\* The loop body with its first two calls exchanged.
MainOpsReviewsFirst ==
  <<"save_app_reviews", "save_app_info", "save_app_review_criterias",
    "save_app_permissions", "save_app_datasafety">>

\* The body of the loop of lines 201-206.
MainOps ==
  <<"save_app_info", "save_app_reviews", "save_app_review_criterias",
    "save_app_permissions", "save_app_datasafety">>

OpIndex(op) == CHOOSE i \in DOMAIN MainOps : MainOps[i] = op

app_id == app_ids[appIdx]

Init ==
  /\ today \in Todays
  /\ reviewsFile \in [Apps -> InitArchives]
  /\ dumpFiles = [k \in DumpKinds |-> [a \in Apps |-> None]]
  /\ remote = [a \in Apps |-> <<>>]
  /\ runNo = 1
  /\ appIdx = 1
  /\ pc = MainOps[1]
  /\ fault = "none"
  /\ existing_reviews = <<>>
  /\ upto_date = None
  /\ next_pagination_token = None
  /\ all_reviews = <<>>
  /\ reviews = <<>>
  /\ stages = <<>>
  /\ requests = <<>>
  /\ log = <<>>
  /\ persisted = <<>>
  /\ lastCall = <<"none", HttpFail, Return(None)>>
  /\ allServed = TRUE
  /\ rd_pc = "idle"
  /\ rd_input = <<>>
  /\ rd_output = <<>>
  /\ FnIdle

Event(op, ev) == <<runNo, app_id, op, ev>>

\* The statement after operation op returns: the next operation of the loop
\* body, the first one for the next app, or the end of the script.
PcAfter(op) ==
  IF OpIndex(op) < Len(MainOps) THEN MainOps[OpIndex(op) + 1]
  ELSE IF appIdx < Len(app_ids) THEN MainOps[1]
  ELSE "terminated"

AppIdxAfter(op) ==
  IF OpIndex(op) = Len(MainOps) /\ appIdx < Len(app_ids) THEN appIdx + 1
  ELSE appIdx

\* The exception is caught around the operation and the loop goes on.
AbortAndContinue(op, exception) ==
  /\ fault' = exception
  /\ pc' = PcAfter(op)
  /\ log' = Append(log, Event(op, "fault"))
  /\ appIdx' = AppIdxAfter(op)

\* An uncaught exception in operation op ends the process.
Abort(op, exception) ==
  /\ fault' = exception
  /\ pc' = "terminated"
  /\ log' = Append(log, Event(op, "fault"))
  /\ UNCHANGED appIdx

\* ---------------------------------------------------------------- actions
DumpOps == {"save_app_info", "save_app_permissions", "save_app_datasafety"}

DumpKindOf(op) ==
  CASE op = "save_app_info" -> "AppInfo"
    [] op = "save_app_permissions" -> "Permissions"
    [] OTHER -> "DataSafety"

GetFor(op, response) ==
  CASE op = "save_app_info" -> get_appinfo(response)
    [] op = "save_app_permissions" -> get_permissions(response)
    [] OTHER -> get_datasafety(response)

\* save_app_info, save_app_permissions, save_app_datasafety: fetch once and
\* overwrite the file with whatever came back, None included.
FetchAndDump ==
  /\ pc \in DumpOps
  /\ \E outcome \in DumpOutcomes :
       LET data == GetFor(pc, ServiceDump(outcome))
       IN /\ lastCall' = <<pc, ServiceDump(outcome), data>>
          /\ IF data.raised # "none"
             THEN /\ fault' = data.raised
                  /\ pc' = "terminated"
                  /\ log' = log \o <<Event(pc, "start"), Event(pc, "fault")>>
                  /\ UNCHANGED <<appIdx, dumpFiles>>
             ELSE /\ dumpFiles' =
                       [dumpFiles EXCEPT ![DumpKindOf(pc)][app_id] = Some(data.value)]
                  /\ log' = log \o <<Event(pc, "start"), Event(pc, "finish")>>
                  /\ pc' = PcAfter(pc)
                  /\ appIdx' = AppIdxAfter(pc)
                  /\ UNCHANGED fault
  /\ UNCHANGED <<today, reviewsFile, remote, runNo, locals, persisted,
                 allServed, rd_vars, fn_vars>>

\* The decision of line 95 with >= in place of >.
UseCutoffAlways(existing) == Len(existing) >= 0

\* len(existing_reviews) > 0, line 95
UseCutoff(existing) == Len(existing) > 0

\* save_app_reviews up to the call of extract_all_reviews, lines 85-95, and
\* lines 39-40 of the callee.
ReviewsStart ==
  /\ pc = "save_app_reviews"
  /\ LET existing == IF reviewsFile[app_id] = None THEN <<>>
                     ELSE reviewsFile[app_id][1]
     IN /\ existing_reviews' = existing
        /\ upto_date' = IF UseCutoff(existing) THEN Some(upto_date_of(today))
                        ELSE None
        /\ stages' = <<"START", IF UseCutoff(existing) THEN "INCREMENTAL_FETCH"
                                ELSE "FULL_FETCH">>
  /\ IF remote[app_id] = <<>>
     THEN \E chain \in Chains : remote' = [remote EXCEPT ![app_id] = chain]
     ELSE UNCHANGED remote
  /\ all_reviews' = <<>>
  /\ next_pagination_token' = None
  /\ reviews' = <<>>
  /\ requests' = <<>>
  /\ pc' = "extract_all_reviews"
  /\ log' = Append(log, Event("save_app_reviews", "start"))
  /\ UNCHANGED <<today, reviewsFile, dumpFiles, runNo, appIdx, fault, persisted,
                 lastCall, allServed, rd_vars, fn_vars>>

\* not data, line 44: None and the empty dict are falsy.
NotData(data) == data = None \/ DOMAIN data[1] = {}

\* The comparison of line 51 with >= in place of >.
DateAfterOrEqual(dateOrd, cutoff) == dateOrd >= cutoff

\* date > upto_date, line 51
DateAfter(dateOrd, cutoff) == dateOrd > cutoff

\* The list comprehension of line 51.
FilterByCutoff(page, cutoff) ==
  SelectSeq(page, LAMBDA r : DateAfter(strptime(r.date)[1], cutoff))

AllDatesParse(page) == \A i \in DOMAIN page : strptime(page[i].date) # None

\* The loop breaks on a token alone: the test of lines 52-53 left out.
LoopEndsOnTokenOnly(cutoff, kept, token) == token = None

\* The breaks of lines 52-53 and 57-58.
LoopEnds(cutoff, kept, token) ==
  (cutoff # None /\ Len(kept) = 0) \/ token = None

\* One iteration of the loop of lines 42-58.
FetchPage ==
  /\ pc = "extract_all_reviews"
  /\ \E outcome \in ReviewOutcomes :
       LET response == ServiceReviews(remote[app_id], next_pagination_token,
                                      outcome)
           result == get_reviews(response)
           data == result.value
       IN /\ requests' = Append(requests, <<next_pagination_token, outcome>>)
          /\ lastCall' = <<"get_reviews", response, result>>
          /\ allServed' = (allServed /\ outcome = "ok")
          /\ IF result.raised # "none"
             THEN /\ Abort("save_app_reviews", result.raised)
                  /\ UNCHANGED <<next_pagination_token, all_reviews, stages>>
             ELSE IF NotData(data)
             THEN /\ pc' = "flatten"
                  /\ stages' = Append(stages, "FLATTEN")
                  /\ UNCHANGED <<next_pagination_token, all_reviews, fault,
                                 appIdx, log>>
             ELSE
               LET page == data[1].results.data
                   token == data[1].results.nextPaginationToken
               IN IF upto_date # None /\ ~AllDatesParse(page)
                  THEN /\ Abort("save_app_reviews", "ValueError")
                       /\ next_pagination_token' = token
                       /\ UNCHANGED <<all_reviews, stages>>
                  ELSE
                    LET kept == IF upto_date # None
                                THEN FilterByCutoff(page, upto_date[1])
                                ELSE page
                        stop == LoopEnds(upto_date, kept, token)
                    IN /\ next_pagination_token' = token
                       /\ all_reviews' = all_reviews \o kept
                       /\ pc' = IF stop THEN "flatten" ELSE pc
                       /\ stages' = IF stop THEN Append(stages, "FLATTEN")
                                    ELSE stages
                       /\ UNCHANGED <<fault, appIdx, log>>
  /\ UNCHANGED <<today, reviewsFile, dumpFiles, remote, runNo,
                 existing_reviews, upto_date, reviews, persisted, rd_vars, fn_vars>>

\* Lines 60-73: flatten every review, then the set of line 73.
FlattenReviews ==
  /\ pc = "flatten"
  /\ reviews' \in remove_duplicates(FlattenAll(all_reviews))
  /\ pc' = "line96"
  /\ UNCHANGED <<today, reviewsFile, dumpFiles, remote, runNo, appIdx, fault,
                 existing_reviews, upto_date, next_pagination_token,
                 all_reviews, stages, requests, log, persisted, lastCall,
                 allServed, rd_vars, fn_vars>>

\* The archive file is opened for writing, and so emptied, before line 96.
MergeAndPersistOpenFirst ==
  /\ pc = "line96"
  /\ IF LogCountMessage # "ok"
     THEN /\ Abort("save_app_reviews", LogCountMessage)
          /\ reviewsFile' = [reviewsFile EXCEPT ![app_id] = Some(<<>>)]
          /\ UNCHANGED <<stages, persisted>>
     ELSE \E all \in remove_duplicates(existing_reviews \o reviews) :
            LET sorted == SortReviews(all)
            IN IF sorted = None
               THEN /\ Abort("save_app_reviews", "ValueError")
                    /\ stages' = stages \o
                         <<"MERGE_WITH_EXISTING", "DEDUPLICATE", "SORT">>
                    /\ UNCHANGED <<reviewsFile, persisted>>
               ELSE /\ reviewsFile' =
                         [reviewsFile EXCEPT ![app_id] = Some(sorted[1])]
                    /\ persisted' = Append(persisted, <<runNo, app_id, sorted[1]>>)
                    /\ stages' = stages \o
                         <<"MERGE_WITH_EXISTING", "DEDUPLICATE", "SORT",
                           "PERSIST", "DONE">>
                    /\ log' = Append(log, Event("save_app_reviews", "finish"))
                    /\ pc' = PcAfter("save_app_reviews")
                    /\ appIdx' = AppIdxAfter("save_app_reviews")
                    /\ UNCHANGED fault
  /\ UNCHANGED <<today, dumpFiles, remote, runNo, existing_reviews, upto_date,
                 next_pagination_token, all_reviews, reviews, requests,
                 lastCall, allServed, rd_vars, fn_vars>>

\* Lines 96-100: the log line, then merge, deduplicate, sort and write.
MergeAndPersist ==
  /\ pc = "line96"
  /\ IF LogCountMessage # "ok"
     THEN /\ Abort("save_app_reviews", LogCountMessage)
          /\ UNCHANGED <<reviewsFile, stages, persisted>>
     ELSE \E all \in remove_duplicates(existing_reviews \o reviews) :
            LET sorted == SortReviews(all)
            IN IF sorted = None
               THEN /\ Abort("save_app_reviews", "ValueError")
                    /\ stages' = stages \o
                         <<"MERGE_WITH_EXISTING", "DEDUPLICATE", "SORT">>
                    /\ UNCHANGED <<reviewsFile, persisted>>
               ELSE /\ reviewsFile' =
                         [reviewsFile EXCEPT ![app_id] = Some(sorted[1])]
                    /\ persisted' = Append(persisted, <<runNo, app_id, sorted[1]>>)
                    /\ stages' = stages \o
                         <<"MERGE_WITH_EXISTING", "DEDUPLICATE", "SORT",
                           "PERSIST", "DONE">>
                    /\ log' = Append(log, Event("save_app_reviews", "finish"))
                    /\ pc' = PcAfter("save_app_reviews")
                    /\ appIdx' = AppIdxAfter("save_app_reviews")
                    /\ UNCHANGED fault
  /\ UNCHANGED <<today, dumpFiles, remote, runNo, existing_reviews, upto_date,
                 next_pagination_token, all_reviews, reviews, requests,
                 lastCall, allServed, rd_vars, fn_vars>>

\* The script is started again: the files and the service are as the last
\* run left them.
Restart ==
  /\ pc = "terminated"
  /\ runNo < MaxRuns
  /\ runNo' = runNo + 1
  /\ appIdx' = 1
  /\ pc' = MainOps[1]
  /\ fault' = "none"
  /\ existing_reviews' = <<>>
  /\ upto_date' = None
  /\ next_pagination_token' = None
  /\ all_reviews' = <<>>
  /\ reviews' = <<>>
  /\ stages' = <<>>
  /\ requests' = <<>>
  /\ log' = <<>>
  /\ UNCHANGED <<today, reviewsFile, dumpFiles, remote, persisted, lastCall,
                 allServed, rd_vars, fn_vars>>

Next ==
  \/ FetchAndDump
  \/ ReviewsStart
  \/ FetchPage
  \/ FlattenReviews
  \/ MergeAndPersist
  \/ Restart

Spec == Init /\ [][Next]_vars

\* ----------------------------------------- remove_duplicates on its own
\* Flat records a caller may pass: RawNew flattened, the same record with its
\* two criteria met in the other order, RawOld flattened, and RawOld with
\* another text.
RawNewSwapped ==
  [RawNew EXCEPT !.criterias = << [criteria |-> "vaf_b"],
                                  [criteria |-> "vaf_a", rating |-> 1] >>]

FlatRecords ==
  {FlattenReview(RawNew), FlattenReview(RawNewSwapped), FlattenReview(RawOld),
   FlattenReview([RawOld EXCEPT !.text = "edited"])}

InitDedup ==
  /\ rd_pc = "call"
  /\ rd_input \in SeqsUpTo(FlatRecords, MaxDedupLen)
  /\ rd_output = <<>>
  /\ today = DateOrdinal(2024, 3, 2)
  /\ reviewsFile = [a \in Apps |-> None]
  /\ dumpFiles = [k \in DumpKinds |-> [a \in Apps |-> None]]
  /\ remote = [a \in Apps |-> <<>>]
  /\ runNo = 1
  /\ appIdx = 1
  /\ pc = "terminated"
  /\ fault = "none"
  /\ existing_reviews = <<>>
  /\ upto_date = None
  /\ next_pagination_token = None
  /\ all_reviews = <<>>
  /\ reviews = <<>>
  /\ stages = <<>>
  /\ requests = <<>>
  /\ log = <<>>
  /\ persisted = <<>>
  /\ lastCall = <<"none", HttpFail, Return(None)>>
  /\ allServed = TRUE
  /\ FnIdle

\* remove_duplicates(rd_input), line 112
CallRemoveDuplicates ==
  /\ rd_pc = "call"
  /\ rd_output' \in remove_duplicates(rd_input)
  /\ rd_pc' = "returned"
  /\ UNCHANGED <<today, reviewsFile, dumpFiles, remote, runNo, appIdx, pc,
                 fault, locals, log, persisted, lastCall, allServed, rd_input,
                 fn_vars>>

NextDedup == CallRemoveDuplicates

SpecDedup == InitDedup /\ [][NextDedup]_vars

\* ------------------------------------- save_app_review_criterias on its own
\* The test with the last character of the prefix left out.
StartsWithShorter(s, prefix) ==
  LET cs == Chars(s)
      ps == SubSeq(Chars(prefix), 1, Len(Chars(prefix)) - 1)
  IN Len(cs) >= Len(ps) /\ SubSeq(cs, 1, Len(ps)) = ps

\* s.startswith(prefix)
StartsWith(s, prefix) ==
  LET cs == Chars(s)
      ps == Chars(prefix)
  IN Len(cs) >= Len(ps) /\ SubSeq(cs, 1, Len(ps)) = ps

\* Lines 186-188 for one review: its keys in order.
RECURSIVE CountKeys(_, _)
CountKeys(criteria_counts, items) ==
  IF items = <<>> THEN criteria_counts
  ELSE LET key == Head(items)[1]
       IN CountKeys(IF StartsWith(key, "vaf")
                    THEN DictSet(criteria_counts, key,
                                 (IF key \in DictKeys(criteria_counts)
                                  THEN DictGet(criteria_counts, key) ELSE 0) + 1)
                    ELSE criteria_counts,
                    Tail(items))

\* The loop of lines 185-188.
RECURSIVE CountReviews(_, _)
CountReviews(criteria_counts, existing) ==
  IF existing = <<>> THEN criteria_counts
  ELSE CountReviews(CountKeys(criteria_counts, Head(existing)), Tail(existing))

\* A review with a criterion that is no "vaf" key and one named "va".
RawMixed ==
  [id |-> "11", date |-> "2024-02-28", score |-> 3, scoreText |-> "3",
   title |-> "t", text |-> "fair",
   criterias |-> << [criteria |-> "speed", rating |-> 3],
                    [criteria |-> "vaf_a", rating |-> 2],
                    [criteria |-> "va"] >>]

CriteriaRecords ==
  {FlattenReview(RawNew), FlattenReview(RawOld), FlattenReview(RawMixed)}

\* What an earlier run may have left in Criterias_{id}.json.
StaleCriterias == << <<"vaf_b", 7>>, <<"vaf_old", 1>> >>

\* All of the main script at rest.
MainIdle ==
  /\ today = DateOrdinal(2024, 3, 2)
  /\ dumpFiles = [k \in DumpKinds |-> [a \in Apps |-> None]]
  /\ remote = [a \in Apps |-> <<>>]
  /\ runNo = 1
  /\ appIdx = 1
  /\ pc = "terminated"
  /\ fault = "none"
  /\ existing_reviews = <<>>
  /\ upto_date = None
  /\ next_pagination_token = None
  /\ all_reviews = <<>>
  /\ reviews = <<>>
  /\ stages = <<>>
  /\ requests = <<>>
  /\ log = <<>>
  /\ persisted = <<>>
  /\ lastCall = <<"none", HttpFail, Return(None)>>
  /\ allServed = TRUE
  /\ rd_pc = "idle"
  /\ rd_input = <<>>
  /\ rd_output = <<>>

InitCriterias ==
  /\ MainIdle
  /\ \E archive \in {None} \cup {Some(a) : a \in SeqsUpTo(CriteriaRecords, MaxArchiveLen)} :
       reviewsFile = [a \in Apps |-> IF a = app_ids[1] THEN archive ELSE None]
  /\ \E old \in {None, Some(StaleCriterias)} :
       criteriasFile = [a \in Apps |-> IF a = app_ids[1] THEN old ELSE None]
  /\ fn_pc = "call"
  /\ fn_args = <<app_ids[1]>>
  /\ fn_result = <<>>

\* save_app_review_criterias(fn_args[1]), lines 163-190
CallSaveCriterias ==
  /\ fn_pc = "call"
  /\ LET a == fn_args[1]
         existing == IF reviewsFile[a] = None THEN <<>> ELSE reviewsFile[a][1]
     IN criteriasFile' =
          [criteriasFile EXCEPT ![a] = Some(CountReviews(<<>>, existing))]
  /\ fn_pc' = "returned"
  /\ UNCHANGED <<today, reviewsFile, dumpFiles, remote, runNo, appIdx, pc,
                 fault, locals, log, persisted, lastCall, allServed, rd_vars,
                 fn_args, fn_result>>

NextCriterias == CallSaveCriterias

SpecCriterias == InitCriterias /\ [][NextCriterias]_vars

\* ------------------------------------ the cutoff filter of line 51 on its own
\* Raw reviews a page may hold: dated 2024-02-28, 2024-02-29, 2024-03-01, and
\* one whose date is no calendar day.
FilterReviews == {RawMixed, RawOld, RawNew, RawBadDate}

\* The cutoffs a caller may pass: none, or one of three successive days.
FilterCutoffs ==
  {None} \cup {Some(DateOrdinal(2024, 2, d)) : d \in {28, 29}}
         \cup {Some(DateOrdinal(2024, 3, 1))}

InitFilter ==
  /\ MainIdle
  /\ reviewsFile = [a \in Apps |-> None]
  /\ criteriasFile = [a \in Apps |-> None]
  /\ fn_pc = "call"
  /\ \E page \in SeqsUpTo(FilterReviews, MaxFilterLen), cutoff \in FilterCutoffs :
       fn_args = <<page, cutoff>>
  /\ fn_result = <<>>

\* Lines 50-52 for the page fn_args[1] under the cutoff fn_args[2]: the
\* reviews that go on to line 55, or the exception of strptime.
FilterPage ==
  /\ fn_pc = "call"
  /\ LET page == fn_args[1]
         cutoff == fn_args[2]
     IN fn_result' =
          IF cutoff = None THEN Return(page)
          ELSE IF ~AllDatesParse(page) THEN Raise("ValueError")
          ELSE Return(FilterByCutoff(page, cutoff[1]))
  /\ fn_pc' = "returned"
  /\ UNCHANGED <<today, reviewsFile, dumpFiles, remote, runNo, appIdx, pc,
                 fault, locals, log, persisted, lastCall, allServed, rd_vars,
                 criteriasFile, fn_args>>

NextFilter == FilterPage

SpecFilter == InitFilter /\ [][NextFilter]_vars

\* --------------------------------------- flattening one review on its own
\* The six keys of the dict display of lines 62-70.
FixedKeys == {"id", "date", "score", "scoreText", "title", "text"}

\* Entries the criterias list of a review may hold: a criterion name with a
\* rating or without one.  The service chooses the names; "text" is one that
\* is also a fixed key.
CriteriaNames == {"vaf_a", "vaf_b", "text"}

CriteriaEntries ==
  {[criteria |-> n, rating |-> v] : n \in CriteriaNames, v \in {1, 2}}
    \cup {[criteria |-> n] : n \in CriteriaNames}

\* RawOld has no "criterias" key; the others hold a list of entries.
FlattenInputs ==
  {RawOld} \cup
  {[id |-> "9", date |-> "2024-03-01", score |-> 5, scoreText |-> "5",
    title |-> "t", text |-> "good", criterias |-> cs] :
     cs \in SeqsUpTo(CriteriaEntries, MaxCriterias)}

InitFlatten ==
  /\ MainIdle
  /\ reviewsFile = [a \in Apps |-> None]
  /\ criteriasFile = [a \in Apps |-> None]
  /\ fn_pc = "call"
  /\ \E review \in FlattenInputs : fn_args = <<review>>
  /\ fn_result = <<>>

\* One iteration of the loop of lines 61-71, for the review fn_args[1].
CallFlatten ==
  /\ fn_pc = "call"
  /\ fn_result' = FlattenReview(fn_args[1])
  /\ fn_pc' = "returned"
  /\ UNCHANGED <<today, reviewsFile, dumpFiles, remote, runNo, appIdx, pc,
                 fault, locals, log, persisted, lastCall, allServed, rd_vars,
                 criteriasFile, fn_args>>

NextFlatten == CallFlatten

SpecFlatten == InitFlatten /\ [][NextFlatten]_vars

\* ------------------------------------------------------------- properties
Last(q) == q[Len(q)]

\* The last thing the process did was to leave save_app_reviews, by return
\* or by an exception.
SyncEnded ==
  /\ Len(log) > 0
  /\ Last(log)[3] = "save_app_reviews"
  /\ Last(log)[4] \in {"finish", "fault"}

SyncApp == Last(log)[2]

\* Every page request of the current sync was answered with its page.
Responding == \A i \in DOMAIN requests : requests[i][2] = "ok"

ChainReviews(chain) ==
  UNION {Range(chain[k]) : k \in DOMAIN chain}

WellFormedDates(a) ==
  /\ \A r \in ChainReviews(remote[a]) : strptime(r.date) # None
  /\ reviewsFile[a] # None =>
       \A i \in DOMAIN reviewsFile[a][1] :
         strptime(DictGet(reviewsFile[a][1][i], "date")) # None

ArchiveSet(a) ==
  IF reviewsFile[a] = None THEN {} ELSE Range(reviewsFile[a][1])

PersistedBy(run, a) ==
  {persisted[i][3] : i \in {j \in DOMAIN persisted :
                              persisted[j][1] = run /\ persisted[j][2] = a}}

\* C1: a sync served by the service, all dates well-formed, ends having
\* entered START, one of the two fetches, FLATTEN, MERGE_WITH_EXISTING,
\* DEDUPLICATE, SORT, PERSIST and DONE in that order, with the archive written.
C1_SyncReachesDone ==
  (SyncEnded /\ Responding /\ WellFormedDates(SyncApp)) =>
    /\ fault = "none"
    /\ stages \in {<<"START", f, "FLATTEN", "MERGE_WITH_EXISTING",
                     "DEDUPLICATE", "SORT", "PERSIST", "DONE">> :
                   f \in {"FULL_FETCH", "INCREMENTAL_FETCH"}}
    /\ PersistedBy(runNo, SyncApp) # {}

\* C2: when the sync of the first app has ended in the second of two runs,
\* the service having served the same pages in full both times, the archive
\* persisted by the second run is the one persisted by the first.
C2_SecondRunIdentical ==
  (runNo = 2 /\ SyncEnded /\ allServed /\ WellFormedDates(SyncApp)) =>
    /\ PersistedBy(1, SyncApp) # {}
    /\ PersistedBy(2, SyncApp) = PersistedBy(1, SyncApp)
    /\ reviewsFile[SyncApp] # None
    /\ reviewsFile[SyncApp][1] \in PersistedBy(1, SyncApp)

\* Records counted once per key/value set.
DistinctByEquality(list) == {Range(list[i]) : i \in DOMAIN list}

\* C3: remove_duplicates returns exactly one record per distinct key/value
\* set of its input, key order disregarded: no two returned records are
\* equal as dicts, each input record has an equal one in the result, and the
\* result has as many records as the input has distinct key/value sets.
C3_OnePerKeyValueSet ==
  rd_pc = "returned" =>
    /\ \A i, j \in DOMAIN rd_output :
         DictEq(rd_output[i], rd_output[j]) => i = j
    /\ \A i \in DOMAIN rd_input :
         \E j \in DOMAIN rd_output : DictEq(rd_input[i], rd_output[j])
    /\ Len(rd_output) = Cardinality(DistinctByEquality(rd_input))

\* (date, id) of a record, dates by the calendar and ids as strings.
KeyGeq(a, b) ==
  LET da == strptime(DictGet(a, "date"))[1]
      db == strptime(DictGet(b, "date"))[1]
      ia == Chars(DictGet(a, "id"))
      ib == Chars(DictGet(b, "id"))
  IN da > db \/ (da = db /\ ~SeqLess(ia, ib))

SortedNewestFirst(list) ==
  \A i \in 1..(Len(list) - 1) : KeyGeq(list[i], list[i + 1])

FetchReturned == pc = "line96"

DatedAfter(r, cutoff) == strptime(r.date)[1] > cutoff

Satisfying(S) ==
  IF upto_date = None THEN S ELSE {r \in S : DatedAfter(r, upto_date[1])}

\* The pages before the first one on which no review is dated after the
\* cutoff; all pages when there is no cutoff or no such page.
PagesBeforeStop(chain) ==
  {k \in DOMAIN chain :
     \A j \in 1..k : upto_date = None \/ Satisfying(Range(chain[j])) # {}}

FlatSet(S) == {FlattenReview(r) : r \in S}

\* C6 as stated: served in full, extract_all_reviews returns every review of
\* the chain that satisfies the cutoff (every review when there is none).
C6_FetchComplete ==
  (FetchReturned /\ Responding /\ WellFormedDates(app_id)) =>
    Range(reviews) = FlatSet(Satisfying(ChainReviews(remote[app_id])))

\* C6 amended: served in full, extract_all_reviews returns every review of
\* every page when there is no cutoff; with a cutoff D and well-formed dates
\* it returns the reviews dated after D of the pages that precede the first
\* page holding no review dated after D.
C6_FetchCompleteUpToStop ==
  (FetchReturned /\ Responding) =>
    IF upto_date = None
    THEN Range(reviews) = FlatSet(ChainReviews(remote[app_id]))
    ELSE WellFormedDates(app_id) =>
           Range(reviews) =
             FlatSet(Satisfying(UNION {Range(remote[app_id][k]) :
                                         k \in PagesBeforeStop(remote[app_id])}))

\* A cutoff fetch that kept a review and stopped at a later page that holds
\* reviews, none of them dated after the cutoff.
C6_Witness ==
  /\ FetchReturned /\ Responding /\ WellFormedDates(app_id)
  /\ upto_date # None
  /\ reviews # <<>>
  /\ Len(requests) = 2
  /\ remote[app_id][2] # <<>>
  /\ Satisfying(Range(remote[app_id][2])) = {}

\* C7: while a sync fetches and after, the fetch has the cutoff today - 2
\* exactly when the archive file of the app holds a non-empty list; with the
\* file absent or holding the empty list there is no cutoff, and a fetch
\* served in full has then asked for every page and kept every review.
C7_CutoffIffArchiveNonEmpty ==
  pc \in {"extract_all_reviews", "flatten", "line96"} =>
    LET file == reviewsFile[app_id]
        nonEmpty == file # None /\ file[1] # <<>>
    IN /\ nonEmpty => upto_date = Some(today - 2) /\ stages[2] = "INCREMENTAL_FETCH"
       /\ ~nonEmpty => upto_date = None /\ stages[2] = "FULL_FETCH"
       /\ (~nonEmpty /\ pc # "extract_all_reviews" /\ Responding) =>
            /\ Len(requests) = Len(remote[app_id])
            /\ Range(all_reviews) = ChainReviews(remote[app_id])

\* A fetch with the cutoff, on an archive that holds records, that kept a
\* review.
C7_Witness ==
  /\ pc = "flatten"
  /\ reviewsFile[app_id] # None
  /\ Len(reviewsFile[app_id][1]) = 2
  /\ upto_date = Some(today - 2)
  /\ all_reviews # <<>>

\* C8: a get_ function that was called did not raise, returned None when the
\* response was not a 200 or the request ended in a network error, and
\* returned the decoded payload only on a 200.
C8_NoneOnFailure ==
  lastCall[1] # "none" =>
    LET response == lastCall[2]
        result == lastCall[3]
        failed == response.error \/ response.status_code # 200
    IN /\ result.raised = "none"
       /\ failed => result.value = None
       /\ ~failed => result.value = response.json

\* C9: a process that has ended without a date or transport fault has
\* finished all five save operations for every app of the list.
C9_BatchCompletes ==
  (pc = "terminated" /\ fault \notin {"ValueError", "ConnectionError"}) =>
    \A i \in DOMAIN app_ids :
      \A op \in {"save_app_info", "save_app_reviews",
                 "save_app_review_criterias", "save_app_permissions",
                 "save_app_datasafety"} :
        \E j \in DOMAIN log : log[j] = <<runNo, app_ids[i], op, "finish">>

\* The place of an operation in the schedule of a run: the five operations
\* of the first app, then those of the second, and so on.
Slot(event) ==
  LET a == CHOOSE i \in DOMAIN app_ids : app_ids[i] = event[2]
      k == CASE event[3] = "save_app_info" -> 1
             [] event[3] = "save_app_reviews" -> 2
             [] event[3] = "save_app_review_criterias" -> 3
             [] event[3] = "save_app_permissions" -> 4
             [] OTHER -> 5
  IN 5 * (a - 1) + k

BeginsWithVaf(k) ==
  LET cs == Chars(k)
  IN Len(cs) >= 3 /\ cs[1] = "v" /\ cs[2] = "a" /\ cs[3] = "f"

ArchiveList(a) == IF reviewsFile[a] = None THEN <<>> ELSE reviewsFile[a][1]

\* C11: after save_app_review_criterias the Criterias file of the app holds
\* exactly the keys beginning with "vaf" that occur in a record of the app's
\* Reviews archive, each once and mapped to the number of records that hold
\* it, whatever the Criterias file held before.
C11_CriteriaCounts ==
  fn_pc = "returned" =>
    LET a == fn_args[1]
        archive == ArchiveList(a)
        counts == criteriasFile[a][1]
    IN /\ DictKeys(counts) =
            {k \in UNION {DictKeys(archive[i]) : i \in DOMAIN archive} :
               BeginsWithVaf(k)}
       /\ \A i, j \in DOMAIN counts : counts[i][1] = counts[j][1] => i = j
       /\ \A i \in DOMAIN counts :
            counts[i][2] =
              Cardinality({r \in DOMAIN archive : counts[i][1] \in DictKeys(archive[r])})

\* Three records have been counted, two holding vaf_a and one vaf_b.
C11_Witness ==
  /\ fn_pc = "returned"
  /\ Len(ArchiveList(fn_args[1])) = 3
  /\ Range(criteriasFile[fn_args[1]][1]) = {<<"vaf_a", 2>>, <<"vaf_b", 1>>}

\* The reviews of a page dated after the cutoff of the current sync, in order.
KeptOf(page) == SelectSeq(page, LAMBDA r : DatedAfter(r, upto_date[1]))

\* What pages 1..k of the chain contribute under the cutoff.
RECURSIVE KeptUpTo(_, _)
KeptUpTo(chain, k) ==
  IF k = 0 THEN <<>> ELSE KeptUpTo(chain, k - 1) \o KeptOf(chain[k])

\* A page request of the current sync that was answered with a page on which
\* every date parses and no review is dated after the cutoff.
AnsweredWithNothingNew(i) ==
  LET page == remote[app_id][PageIndex(requests[i][1])]
  IN /\ requests[i][2] = "ok"
     /\ \A n \in DOMAIN page : strptime(page[n].date) # None
     /\ KeptOf(page) = <<>>

\* C12: under a cutoff, the request answered with the first page on which no
\* review is dated after the cutoff is the last request of the fetch, token
\* or not: the loop is left, no request carries that page's token, and the
\* accumulated reviews are those kept from the pages before it.
C12_StopsAtFirstPageWithNothingNew ==
  upto_date # None =>
    \A i \in DOMAIN requests :
      AnsweredWithNothingNew(i) =>
        LET k == PageIndex(requests[i][1])
        IN /\ i = Len(requests)
           /\ pc # "extract_all_reviews"
           /\ \A j \in DOMAIN requests : requests[j][1] # Some(k + 1)
           /\ all_reviews = KeptUpTo(remote[app_id], k - 1)

\* The fetch has stopped at a first page that holds a review, none dated
\* after the cutoff, and that carries the token of a second page.
C12_Witness ==
  /\ upto_date # None
  /\ pc = "flatten"
  /\ Len(requests) = 1
  /\ AnsweredWithNothingNew(1)
  /\ remote[app_id][1] # <<>>
  /\ Len(remote[app_id]) = 2
  /\ remote[app_id][2] # <<>>

\* C13: under a cutoff D the filtered page holds exactly the reviews of the
\* page dated strictly after D, each as often as the page holds it; a review
\* dated D or earlier is never kept, so the page dated D-1, D, D+1 leaves only
\* its D+1 review.
C13_StrictCutoffFilter ==
  (fn_pc = "returned" /\ fn_args[2] # None /\ fn_result.raised = "none") =>
    LET page == fn_args[1]
        D == fn_args[2][1]
        kept == fn_result.value
    IN /\ \A i \in DOMAIN kept : DatedAfter(kept[i], D)
       /\ \A r \in Range(page) :
            Cardinality({i \in DOMAIN kept : kept[i] = r}) =
              IF DatedAfter(r, D)
              THEN Cardinality({i \in DOMAIN page : page[i] = r})
              ELSE 0
       /\ (page = <<RawMixed, RawOld, RawNew>> /\ D = DateOrdinal(2024, 2, 29))
            => kept = <<RawNew>>

\* The page dated 2024-02-28, 2024-02-29, 2024-03-01 has been filtered under
\* the cutoff 2024-02-29 and only the review of 2024-03-01 is left.
C13_Witness ==
  /\ fn_pc = "returned"
  /\ fn_args = << <<RawMixed, RawOld, RawNew>>, Some(DateOrdinal(2024, 2, 29)) >>
  /\ fn_result = Return(<<RawNew>>)

\* The last page request of the current sync failed or brought no data.
LastRequestFailed ==
  /\ requests # <<>>
  /\ Last(requests)[2] \in {"empty", "http_error"}

\* C14: when the request for page k got a non-success response or no data,
\* the loop has ended with no exception and no further request, and once the
\* sync has ended, dates well-formed, it has ended without a fault and the
\* reviews accumulated from pages 1..k-1 are in the archive it persisted.
C14_PartialResultsPersisted ==
  LastRequestFailed =>
    /\ pc # "extract_all_reviews"
    /\ fault # "ConnectionError"
    /\ \A i \in DOMAIN requests : requests[i][2] # "ok" => i = Len(requests)
    /\ (SyncEnded /\ WellFormedDates(SyncApp)) =>
         /\ fault = "none"
         /\ PersistedBy(runNo, SyncApp) # {}
         /\ FlatSet(Range(all_reviews)) \subseteq ArchiveSet(SyncApp)

\* The criterion names of a raw review.
NamesOf(raw) ==
  IF "criterias" \in DOMAIN raw
  THEN {raw.criterias[i].criteria : i \in DOMAIN raw.criterias}
  ELSE {}

\* The rating of the last entry of the review named n, null when that entry
\* has none.
LastRating(raw, n) ==
  LET at == {i \in DOMAIN raw.criterias : raw.criterias[i].criteria = n}
      last == CHOOSE i \in at : \A j \in at : j <= i
      entry == raw.criterias[last]
  IN IF "rating" \in DOMAIN entry THEN <<entry.rating>> ELSE <<>>

\* C15 as stated: the flat record of a raw review has the six fixed keys and
\* one more key per criterion name of the review, no key twice; the fixed
\* keys hold the raw review's values and each criterion name holds the rating
\* of its last occurrence, null when that occurrence has none.
C15_FlatRecord ==
  fn_pc = "returned" =>
    LET raw == fn_args[1]
        flat == fn_result
    IN /\ DictKeys(flat) = FixedKeys \cup NamesOf(raw)
       /\ Len(flat) = Cardinality(FixedKeys) + Cardinality(NamesOf(raw))
       /\ \A k \in FixedKeys : DictGet(flat, k) = raw[k]
       /\ \A n \in NamesOf(raw) : DictGet(flat, n) = LastRating(raw, n)

\* C15 amended: the keys of the flat record are the six fixed keys together
\* with the criterion names of the review, no key twice; each criterion name
\* holds the rating of its last occurrence, null when that occurrence has
\* none, also when the name is one of the fixed keys; every other fixed key
\* holds the raw review's value.
C15_FlatRecordCriteriaOverFixed ==
  fn_pc = "returned" =>
    LET raw == fn_args[1]
        flat == fn_result
    IN /\ DictKeys(flat) = FixedKeys \cup NamesOf(raw)
       /\ Len(flat) = Cardinality(FixedKeys \cup NamesOf(raw))
       /\ \A k \in FixedKeys \ NamesOf(raw) : DictGet(flat, k) = raw[k]
       /\ \A n \in NamesOf(raw) : DictGet(flat, n) = LastRating(raw, n)

\* A review rating vaf_a 1, then text without a rating, then vaf_a 2 has
\* been flattened: vaf_a holds 2, text holds null, id is the review's.
C15_Witness ==
  /\ fn_pc = "returned"
  /\ "criterias" \in DOMAIN fn_args[1]
  /\ fn_args[1].criterias = << [criteria |-> "vaf_a", rating |-> 1],
                               [criteria |-> "text"],
                               [criteria |-> "vaf_a", rating |-> 2] >>
  /\ Len(fn_result) = 7
  /\ DictGet(fn_result, "vaf_a") = <<2>>
  /\ DictGet(fn_result, "text") = <<>>
  /\ DictGet(fn_result, "id") = "9"

\* A page of the current sync was answered under a cutoff and holds a date
\* that strptime rejects: line 51 has parsed it.
MalformedDateParsed ==
  /\ upto_date # None
  /\ \E i \in DOMAIN requests :
       /\ requests[i][2] = "ok"
       /\ \E r \in Range(remote[app_id][PageIndex(requests[i][1])]) :
            strptime(r.date) = None

\* C16: a malformed date parsed during a sync raises ValueError out of
\* save_app_reviews, and after that fault the process has ended: the fault
\* is the last event of the run, no operation that follows save_app_reviews
\* has started for the app, and no app after it has been touched.
C16_DateFaultHaltsBatch ==
  /\ MalformedDateParsed => fault = "ValueError"
  /\ fault = "ValueError" =>
       /\ pc = "terminated"
       /\ Last(log) = <<runNo, app_id, "save_app_reviews", "fault">>
       /\ \A i \in DOMAIN log :
            /\ log[i][2] \in {app_ids[k] : k \in 1..appIdx}
            /\ log[i][2] = app_id =>
                 OpIndex(log[i][3]) <= OpIndex("save_app_reviews")

\* A review dated 30 February was parsed under a cutoff in the sync of the
\* first of two apps, and the run ended there.
C16_Witness ==
  /\ MalformedDateParsed
  /\ fault = "ValueError"
  /\ pc = "terminated"
  /\ appIdx = 1
  /\ Len(app_ids) = 2

\* C17: a sync that ended in a fault has written nothing: the archive of its
\* app is the list the sync read at its start and the run persisted no
\* archive for the app; and the list a sync works from is the archive as the
\* run before left it.
C17_ArchiveUnchangedOnFault ==
  /\ (SyncEnded /\ fault # "none") =>
       /\ ArchiveList(SyncApp) = existing_reviews
       /\ PersistedBy(runNo, SyncApp) = {}
  /\ pc \in {"extract_all_reviews", "flatten", "line96"} =>
       existing_reviews = ArchiveList(app_id)

\* The sync of a second run found an archive, fetched a review dated after
\* the cutoff and ended in a fault, the archive still as it was read.
C17_Witness ==
  /\ runNo = 2
  /\ SyncEnded
  /\ fault # "none"
  /\ existing_reviews # <<>>
  /\ reviews # <<>>
  /\ ArchiveList(SyncApp) = existing_reviews

\* A fetched record and an archived one with the same id and some field
\* that differs.
SameIdOtherContent(f, e) ==
  /\ DictGet(f, "id") = DictGet(e, "id")
  /\ ~DictEq(f, e)

\* C18: when a sync that was served, dates well-formed, has ended, every
\* fetched record whose id was already in the archive with other content is
\* in the archive together with that older record: two records, one id.
C18_SameIdBothKept ==
  (SyncEnded /\ Responding /\ WellFormedDates(SyncApp)) =>
    \A f \in Range(reviews), e \in Range(existing_reviews) :
      SameIdOtherContent(f, e) =>
        /\ PersistedBy(runNo, SyncApp) # {}
        /\ {f, e} \subseteq ArchiveSet(SyncApp)
        /\ Cardinality({r \in ArchiveSet(SyncApp) :
                          DictGet(r, "id") = DictGet(f, "id")}) >= 2

====
